---- MODULE Spec2Model ----
(***************************************************************************)
(* A model of que.py: the filter / metric-conversion / summary / rendering *)
(* pipeline over scheduler job records.                                    *)
(*                                                                         *)
(* Python strings are sequences of one-character strings.  A JSON value    *)
(* that may be a string, an integer or null is a record                    *)
(* [t |-> "str"|"int"|"null", s |-> <characters>, n |-> <integer>].        *)
(* A Python dict is a TLA+ function; a key that is absent from the dict is *)
(* absent from its DOMAIN.  A call that can raise returns a record whose   *)
(* field exc names the exception ("none" when it returned).                *)
(***************************************************************************)
EXTENDS Integers, Sequences, FiniteSets, TLC

VARIABLES
    pc,            \* position in __main__ / in the function under study
    Jobs,          \* json_data["Jobs"] as read from qstat: <<[id, job], ...>>
    user,          \* the four criteria handed to filter_json
    queue,
    state,
    name,
    idx,           \* number of records the filter loop has scanned
    filtered_json, \* the OrderedDict filter_json builds: <<[id, job], ...>>
    spacing,       \* the column width table
    json_data,     \* the global json_data after line 214 rebinds it
    exc,           \* "none", or the exception that ended the process
    printed,       \* what print(job) at line 164 wrote: <<>> or <<job>>
    exit_status,   \* -1 while running, else the process exit status
    summary,       \* what summarize_json returned
    data_table,    \* the texts generate_table returned, in call order
    spacing_in,    \* the width table as handed to the latest generate_table
    stdout,        \* the items printed by __main__, in order
    cjob,          \* the job record handed to a metric converter
    walltime,      \* result of convert_walltime(cjob, cjob["Resource_List"])
    cpu_efficiency,\* result of convert_cpu_efficiency(...)
    mem_efficiency \* result of convert_mem_efficiency(...)

vars == <<pc, Jobs, user, queue, state, name, idx, filtered_json, spacing,
          json_data, exc, printed, exit_status, summary, data_table,
          spacing_in, stdout, cjob, walltime, cpu_efficiency, mem_efficiency>>

-----------------------------------------------------------------------------
(* Python built-ins used by the program                                     *)

Max(a, b) == IF a >= b THEN a ELSE b

\* a in b, for two strings
IsSubstring(a, b) ==
    \E i \in 0..(Len(b) - Len(a)) : SubSeq(b, i + 1, i + Len(a)) = a

LowerAlpha == <<"a","b","c","d","e","f","g","h","i","j","k","l","m",
                "n","o","p","q","r","s","t","u","v","w","x","y","z">>
UpperAlpha == <<"A","B","C","D","E","F","G","H","I","J","K","L","M",
                "N","O","P","Q","R","S","T","U","V","W","X","Y","Z">>

UpperChar(c) ==
    IF \E i \in 1..26 : LowerAlpha[i] = c
    THEN UpperAlpha[CHOOSE i \in 1..26 : LowerAlpha[i] = c]
    ELSE c

LowerChar(c) ==
    IF \E i \in 1..26 : UpperAlpha[i] = c
    THEN LowerAlpha[CHOOSE i \in 1..26 : UpperAlpha[i] = c]
    ELSE c

\* s.upper(), s.lower()
Upper(s) == [i \in 1..Len(s) |-> UpperChar(s[i])]
Lower(s) == [i \in 1..Len(s) |-> LowerChar(s[i])]

Whitespace == {" ", "\t", "\n", "\r"}

\* s.rstrip()
RECURSIVE RStrip(_)
RStrip(s) ==
    IF Len(s) > 0 /\ s[Len(s)] \in Whitespace
    THEN RStrip(SubSeq(s, 1, Len(s) - 1))
    ELSE s

\* s.replace(old, ""), for a non-empty old
RECURSIVE Remove(_, _)
Remove(s, old) ==
    IF Len(s) < Len(old) THEN s
    ELSE IF SubSeq(s, 1, Len(old)) = old
         THEN Remove(SubSeq(s, Len(old) + 1, Len(s)), old)
         ELSE <<s[1]>> \o Remove(Tail(s), old)

\* s.split(sep), for a one-character sep
RECURSIVE Split(_, _)
Split(s, sep) ==
    IF \A i \in 1..Len(s) : s[i] # sep THEN <<s>>
    ELSE LET k == CHOOSE i \in 1..Len(s) :
                      s[i] = sep /\ \A j \in 1..(i - 1) : s[j] # sep
         IN  <<SubSeq(s, 1, k - 1)>> \o Split(SubSeq(s, k + 1, Len(s)), sep)

\* sep.join(parts)
RECURSIVE Join(_, _)
Join(parts, sep) ==
    IF Len(parts) = 0 THEN <<>>
    ELSE IF Len(parts) = 1 THEN parts[1]
    ELSE parts[1] \o sep \o Join(Tail(parts), sep)

Digits == <<"0","1","2","3","4","5","6","7","8","9">>

IsDigit(c) == \E i \in 1..10 : Digits[i] = c
DigitVal(c) == (CHOOSE i \in 1..10 : Digits[i] = c) - 1

\* str(n) for an integer n
RECURSIVE NatToStr(_)
NatToStr(n) ==
    IF n < 10 THEN <<Digits[n + 1]>>
    ELSE NatToStr(n \div 10) \o <<Digits[(n % 10) + 1]>>

IntToStr(n) == IF n < 0 THEN <<"-">> \o NatToStr(0 - n) ELSE NatToStr(n)

RECURSIVE DigitsVal(_)
DigitsVal(s) ==
    IF Len(s) = 0 THEN 0
    ELSE 10 * DigitsVal(SubSeq(s, 1, Len(s) - 1)) + DigitVal(s[Len(s)])

\* int(s) and float(s) on the strings the model feeds them: a non-empty
\* string of decimal digits parses to its value, the empty string and a
\* string with a letter in it raise ValueError.
ParseNumber(s) ==
    IF Len(s) > 0 /\ \A i \in 1..Len(s) : IsDigit(s[i])
    THEN [exc |-> "none", val |-> DigitsVal(s)]
    ELSE [exc |-> "ValueError", val |-> 0]

\* round-half-even of n/d (n >= 0, d > 0), as the format spec ".0f" rounds
RoundDiv(n, d) ==
    LET q == n \div d
        r == n % d
    IN  IF 2 * r < d THEN q
        ELSE IF 2 * r > d THEN q + 1
        ELSE IF q % 2 = 0 THEN q ELSE q + 1

Spaces(k) == [i \in 1..k |-> " "]

\* format(s, ">w"): right-aligned, as a number is under "w.0f"
PadLeft(s, w) == IF Len(s) >= w THEN s ELSE Spaces(w - Len(s)) \o s

\* format(s, "^w"): centred, the odd space going to the right
Center(s, w) ==
    IF Len(s) >= w THEN s
    ELSE LET total == w - Len(s)
             left  == total \div 2
         IN  Spaces(left) \o s \o Spaces(total - left)

-----------------------------------------------------------------------------
(* JSON values and the results of calls                                     *)

JStr(s) == [t |-> "str", s |-> s, n |-> 0]
JInt(n) == [t |-> "int", s |-> <<>>, n |-> n]
JNull   == [t |-> "null", s |-> <<>>, n |-> 0]

Returned(v) == [exc |-> "none", val |-> v]
Raised(e)   == [exc |-> e, val |-> <<>>]

HasKey(d, k) == k \in DOMAIN d

-----------------------------------------------------------------------------
(* Metric converters                                                        *)

\* a variant of NoWalltime that writes the hours with one digit, "0:00:00"
NoWalltimeShort == <<"0",":","0","0",":","0","0">>

\* "00:00:00", the used walltime of a job without usage data
NoWalltime == <<"0","0",":","0","0",":","0","0">>

\* lines 72-75
WalltimeUsed(job) ==
    IF HasKey(job, "resources_used") /\ HasKey(job.resources_used, "walltime")
    THEN job.resources_used.walltime
    ELSE NoWalltime

\* (hours*60) + minutes, hours and minutes being the results of int()
MinutesOf(h, m) ==
    IF h.exc # "none" THEN Raised(h.exc)
    ELSE IF m.exc # "none" THEN Raised(m.exc)
    ELSE Returned(h.val * 60 + m.val)

\* (int(parts[0])*60) + int(parts[1])
Minutes(parts) ==
    MinutesOf(ParseNumber(parts[1]),
              IF Len(parts) < 2 THEN Raised("IndexError")
              ELSE ParseNumber(parts[2]))

\* parts[0:2]
FirstTwo(parts) == SubSeq(parts, 1, IF Len(parts) < 2 THEN Len(parts) ELSE 2)

\* lines 81-85, from the two lists of parts and their minute totals
WalltimeText(used, total, percentage_numerator, percentage_denominator) ==
    IF percentage_numerator.exc # "none"
    THEN Raised(percentage_numerator.exc)
    ELSE IF percentage_denominator.exc # "none"
    THEN Raised(percentage_denominator.exc)
    ELSE IF percentage_denominator.val = 0
    THEN Raised("ZeroDivisionError")
    ELSE Returned(Join(used, <<":">>) \o <<"/">> \o
                  Join(total, <<":">>) \o <<" ", "(">> \o
                  PadLeft(NatToStr(RoundDiv(100 * percentage_numerator.val,
                                            percentage_denominator.val)), 2)
                  \o <<"%", ")">>)

\* lines 77-85
WalltimeOf(used, total) ==
    WalltimeText(used, total, Minutes(used), Minutes(total))

convert_walltime(used_walltime, total_walltime) ==
    IF ~HasKey(total_walltime, "walltime") THEN Raised("KeyError")
    ELSE WalltimeOf(FirstTwo(Split(WalltimeUsed(used_walltime), ":")),
                    FirstTwo(Split(total_walltime.walltime, ":")))

\* lines 89-92
CpuUsed(job) ==
    IF HasKey(job, "resources_used") /\ HasKey(job.resources_used, "cpupercent")
    THEN job.resources_used.cpupercent
    ELSE 0

\* f"{x:3.0f}%" for x = 100 * n / d
Percent(n, d) == PadLeft(NatToStr(RoundDiv(n * 100, d)), 3) \o <<"%">>

convert_cpu_efficiency(used_cpus, total_cpus) ==
    IF ~HasKey(total_cpus, "ncpus") THEN Raised("KeyError")
    ELSE IF total_cpus.ncpus * 100 = 0 THEN Raised("ZeroDivisionError")
    ELSE Returned(Percent(CpuUsed(used_cpus), total_cpus.ncpus * 100))

\* int(used_mem['resources_used']["mem"].replace("kb","").replace("b",""))
\* with only KeyError handled
MemUsed(job) ==
    IF HasKey(job, "resources_used") /\ HasKey(job.resources_used, "mem")
    THEN ParseNumber(Remove(Remove(job.resources_used.mem, <<"k","b">>),
                            <<"b">>))
    ELSE Returned(0)

\* total_mem[len(total_mem)-2:] and total_mem[0:len(total_mem)-2]
MemUnits(total_mem)  ==
    SubSeq(total_mem, Max(1, Len(total_mem) - 1), Len(total_mem))
MemNumber(total_mem) == SubSeq(total_mem, 1, Len(total_mem) - 2)

\* lines 105-110: the factor that turns the request into kilobytes
MemScale(units) ==
    IF units = <<"g","b">> THEN 1024 * 1024
    ELSE IF units = <<"m","b">> THEN 1024
    ELSE 1

\* lines 104-113, from the used amount, float(number part) and the
\* lower-cased units
MemText(used, number, units) ==
    IF used.exc # "none" THEN Raised(used.exc)
    ELSE IF number.exc # "none" THEN Raised(number.exc)
    ELSE IF units = <<"0","b">> THEN Returned(<<"0","%">>)
    ELSE IF number.val * MemScale(units) = 0 THEN Raised("ZeroDivisionError")
    ELSE Returned(Percent(used.val, number.val * MemScale(units)))

convert_mem_efficiency(used_mem, total_mem) ==
    IF HasKey(total_mem, "mem")
    THEN MemText(MemUsed(used_mem),
                 ParseNumber(MemNumber(total_mem.mem)),
                 Lower(MemUnits(total_mem.mem)))
    ELSE MemText(MemUsed(used_mem), Raised("KeyError"), <<>>)
-----------------------------------------------------------------------------
(* Inputs: job records as qstat -f -Fjson reports them, and criteria        *)

ResourceList(mem, ncpus, wall) == [mem |-> mem, ncpus |-> ncpus, walltime |-> wall]
ResourcesUsed(wall, cpupercent, mem) ==
    [walltime |-> wall, cpupercent |-> cpupercent, mem |-> mem]

\* a running job with usage data
JobAlice ==
    [id  |-> <<"1","0","1",".","p","b","s","0","2">>,
     job |-> [Job_Name  |-> JStr(<<"s","i","m","1","2">>),
              Job_Owner |-> JStr(<<"a","l","i","c","e","@","n","o","d","e","1">>),
              queue     |-> JStr(<<"b","a","t","c","h">>),
              job_state |-> JStr(<<"R">>),
              Resource_List  |-> ResourceList(<<"1","6","g","b">>, 2, <<"2",":","0","0",":","0","0">>),
              resources_used |-> ResourcesUsed(<<"1",":","3","0",":","0","0">>, 200, <<"4","1","9","4","3","0","4","k","b">>)]]

\* a queued job: no usage data, and a numeric Job_Name
JobBob ==
    [id  |-> <<"1","0","2",".","p","b","s","0","2">>,
     job |-> [Job_Name  |-> JInt(123),
              Job_Owner |-> JStr(<<"b","o","b","@","n","o","d","e","2">>),
              queue     |-> JStr(<<"g","p","u">>),
              job_state |-> JStr(<<"Q">>),
              Resource_List |-> ResourceList(<<"5","1","2","m","b">>, 4, <<"1","0",":","0","0",":","0","0">>)]]

\* a running job whose state carries trailing whitespace
JobTrailing ==
    [id  |-> <<"1","0","3",".","p","b","s","0","2">>,
     job |-> [Job_Name  |-> JStr(<<"r","u","n">>),
              Job_Owner |-> JStr(<<"a","l","i","c","e","@","n","o","d","e","1">>),
              queue     |-> JStr(<<"b","a","t","c","h">>),
              job_state |-> JStr(<<"R", " ">>),
              Resource_List  |-> ResourceList(<<"2","0","4","8","k","b">>, 1, <<"0","2",":","0","0",":","0","0">>),
              resources_used |-> ResourcesUsed(<<"0","0",":","3","0",":","0","0">>, 50, <<"1","0","2","4","k","b">>)]]

\* a held job with a long id, a long user name and a long job name
JobLong ==
    [id  |-> <<"1","2","3","4","5","6","7","8","9","0",".","p","b","s","0","2">>,
     job |-> [Job_Name  |-> JStr(<<"l","o","n","g","-","j","o","b","-","1","2">>),
              Job_Owner |-> JStr(<<"c","h","a","r","l","o","t","t","e","@","n","o","d","e","1">>),
              queue     |-> JStr(<<"g","p","u">>),
              job_state |-> JStr(<<"H">>),
              Resource_List |-> ResourceList(<<"1","6","g","b">>, 16, <<"1","0","0",":","0","0",":","0","0">>)]]

\* a queued job that requests no memory
JobZeroMem ==
    [id  |-> <<"1","0","5",".","p","b","s","0","2">>,
     job |-> [Job_Name  |-> JStr(<<"z","e","r","o">>),
              Job_Owner |-> JStr(<<"b","o","b","@","n","o","d","e","2">>),
              queue     |-> JStr(<<"b","a","t","c","h">>),
              job_state |-> JStr(<<"Q">>),
              Resource_List |-> ResourceList(<<"0","b">>, 1, <<"1",":","0","0",":","0","0">>)]]

\* records that do not follow the schema: a missing job_state, a null
\* queue, a missing Resource_List
JobNoState ==
    [id  |-> <<"1","0","6",".","p","b","s","0","2">>,
     job |-> [Job_Name  |-> JStr(<<"n","o","s","t","a","t","e">>),
              Job_Owner |-> JStr(<<"a","l","i","c","e","@","n","o","d","e","1">>),
              queue     |-> JStr(<<"b","a","t","c","h">>),
              Resource_List |-> ResourceList(<<"1","6","g","b">>, 2, <<"2",":","0","0",":","0","0">>)]]

JobNullQueue ==
    [id  |-> <<"1","0","7",".","p","b","s","0","2">>,
     job |-> [Job_Name  |-> JStr(<<"n","u","l","l","q">>),
              Job_Owner |-> JStr(<<"a","l","i","c","e","@","n","o","d","e","1">>),
              queue     |-> JNull,
              job_state |-> JStr(<<"R">>),
              Resource_List |-> ResourceList(<<"1","6","g","b">>, 2, <<"2",":","0","0",":","0","0">>)]]

JobNoResources ==
    [id  |-> <<"1","0","8",".","p","b","s","0","2">>,
     job |-> [Job_Name  |-> JStr(<<"n","o","r","e","s">>),
              Job_Owner |-> JStr(<<"b","o","b","@","n","o","d","e","2">>),
              queue     |-> JStr(<<"g","p","u">>),
              job_state |-> JStr(<<"Q">>)]]

WellFormedJobs == {JobAlice, JobBob, JobTrailing, JobLong}
Catalog == WellFormedJobs \cup {JobZeroMem, JobNoState, JobNullQueue, JobNoResources}

\* the largest number of records in one qstat reply
MaxJobs == 3

\* the replies: every sequence of at most MaxJobs records with distinct ids
JobMappings ==
    UNION {{m \in [1..n -> Catalog] : \A i, j \in 1..n : i # j => m[i].id # m[j].id}
           : n \in 0..MaxJobs}

UserCriteria  == {<<>>, <<"a","l","i","c","e">>, <<"n","o","d","e","1">>, <<"c","h","a","r","l","o","t","t","e">>}
QueueCriteria == {<<>>, <<"b","a","t","c","h">>}
StateCriteria == {<<>>, <<"r">>}
NameCriteria  == {<<>>, <<"1","2">>}

-----------------------------------------------------------------------------
(* filter_json                                                              *)

\* a variant of InitialSpacing that seeds the user and queue widths with the
\* criterion lengths alone
InitialSpacingNoMinimum(u, q) ==
    [user |-> Len(u), queue |-> Len(q), state |-> 5,
     name |-> 7, mem |-> 3, ncpus |-> 4, jobid |-> 8, walltime |-> 8,
     cpu_efficiency |-> Len(<<"C","P","U"," ","E","f","f",".">>),
     mem_efficiency |-> Len(<<"M","E","M"," ","E","f","f",".">>)]

\* lines 127-136: the width table filter_json starts from
InitialSpacing(u, q) ==
    [user |-> Max(7, Len(u)), queue |-> Max(7, Len(q)), state |-> 5,
     name |-> 7, mem |-> 3, ncpus |-> 4, jobid |-> 8, walltime |-> 8,
     cpu_efficiency |-> Len(<<"C","P","U"," ","E","f","f",".">>),
     mem_efficiency |-> Len(<<"M","E","M"," ","E","f","f",".">>)]

\* if type(job["Job_Name"]) == int: job["Job_Name"] = str(job["Job_Name"])
NormalizeName(job) ==
    IF job.Job_Name.t = "int"
    THEN [job EXCEPT !.Job_Name = JStr(IntToStr(job.Job_Name.n))]
    ELSE job

\* crit in job[key]: "True", "False", or the exception it raises
InField(crit, job, key) ==
    IF ~HasKey(job, key) THEN "KeyError"
    ELSE IF job[key].t # "str" THEN "TypeError"
    ELSE IF IsSubstring(crit, job[key].s) THEN "True"
    ELSE "False"

\* a and b, b evaluated only when a is true
AndThen(a, b) == IF a # "True" THEN a ELSE b

\* a variant of Matches that compares the state criterion as typed
MatchesCaseSensitive(job, u, q, s, n) ==
    AndThen(InField(u, job, "Job_Owner"),
    AndThen(InField(q, job, "queue"),
    AndThen(InField(s, job, "job_state"),
            InField(n, job, "Job_Name"))))

\* the condition of the if statement, lines 141-144
Matches(job, u, q, s, n) ==
    AndThen(InField(u, job, "Job_Owner"),
    AndThen(InField(q, job, "queue"),
    AndThen(InField(Upper(s), job, "job_state"),
            InField(n, job, "Job_Name"))))

\* len(d[k]), or the KeyError of d[k]
FieldLen(d, k) ==
    IF HasKey(d, k) THEN Returned(Len(d[k])) ELSE Raised("KeyError")

\* len(r) of what a converter returned, or the exception it raised
LengthOf(r) == IF r.exc = "none" THEN Returned(Len(r.val)) ELSE r

\* job["Resource_List"], a dict without keys standing for a missing one
\* (every access to it then raises the KeyError the missing key raises)
ResourceListOf(job) ==
    IF HasKey(job, "Resource_List") THEN job.Resource_List ELSE <<>>

\* the columns lines 146-162 grow, in source order
GrowOrder == <<"name", "mem", "queue", "walltime", "ncpus",
               "cpu_efficiency", "mem_efficiency">>

\* the lengths lines 146-162 take the maximum with, in source order
ColumnLengths(job, rl) ==
    <<Returned(Len(job.Job_Name.s)),
      FieldLen(rl, "mem"),
      Returned(Len(job.queue.s)),
      LengthOf(convert_walltime(job, rl)),
      IF HasKey(rl, "ncpus") THEN Returned(Len(IntToStr(rl.ncpus)))
      ELSE Raised("KeyError"),
      LengthOf(convert_cpu_efficiency(job, rl)),
      LengthOf(convert_mem_efficiency(job, rl))>>

\* the running maxima from the i-th on, stopping at the first exception
RECURSIVE Grow(_, _, _)
Grow(sp, lens, i) ==
    IF i > Len(lens) THEN [spacing |-> sp, exc |-> "none"]
    ELSE IF lens[i].exc # "none" THEN [spacing |-> sp, exc |-> lens[i].exc]
    ELSE Grow([sp EXCEPT ![GrowOrder[i]] = Max(@, lens[i].val)], lens, i + 1)

\* lines 146-162
GrowSpacing(sp, job) == Grow(sp, ColumnLengths(job, ResourceListOf(job)), 1)

\* what one iteration leaves: the record, filtered_json, spacing, the
\* exception raised, and whether "except TypeError" handles it
Outcome(job, filtered, sp, e) ==
    [job |-> job, filtered |-> filtered, spacing |-> sp, exc |-> e,
     handled |-> (e = "TypeError")]

\* lines 145-162, g being the result of the width updates
Retain(id, job, filtered, g) ==
    Outcome(job, Append(filtered, [id |-> id, job |-> job]), g.spacing, g.exc)

\* lines 141-162, m being the value of the condition
OnMatch(id, job, filtered, sp, m) ==
    IF m = "False" THEN Outcome(job, filtered, sp, "none")
    ELSE IF m # "True" THEN Outcome(job, filtered, sp, m)
    ELSE Retain(id, job, filtered, GrowSpacing(sp, job))

\* lines 140-162 on a record whose name is normalized
TryBody(id, job, filtered, sp, u, q, s, n) ==
    OnMatch(id, job, filtered, sp, Matches(job, u, q, s, n))

\* one iteration of the for loop, lines 138-162
FilterBody(entry, filtered, sp, u, q, s, n) ==
    IF ~HasKey(entry.job, "Job_Name")
    THEN [job |-> entry.job, filtered |-> filtered, spacing |-> sp,
          exc |-> "KeyError", handled |-> FALSE]
    ELSE TryBody(entry.id, NormalizeName(entry.job), filtered, sp, u, q, s, n)

\* the effect of an iteration with outcome r on the program state
FilterEffect(r) ==
    /\ Jobs' = [Jobs EXCEPT ![idx + 1].job = r.job]
    /\ filtered_json' = r.filtered
    /\ spacing' = r.spacing
    /\ idx' = idx + 1
    /\ IF r.exc = "none"
       THEN UNCHANGED <<pc, exc, printed, exit_status>>
       ELSE /\ pc' = "exit"
            /\ exit_status' = 1
            /\ exc' = IF r.handled THEN "none" ELSE r.exc
            /\ printed' = IF r.handled THEN <<r.job>> ELSE printed

\* lines 137-165: the loop body on the next record of json_data["Jobs"]
FilterStep ==
    /\ pc = "filter"
    /\ idx < Len(Jobs)
    /\ FilterEffect(FilterBody(Jobs[idx + 1], filtered_json, spacing,
                               user, queue, state, name))
    /\ UNCHANGED <<user, queue, state, name, json_data, summary, data_table,
                   spacing_in, stdout, cjob, walltime, cpu_efficiency,
                   mem_efficiency>>

\* line 166 and the assignment of line 214: the global json_data now names
\* the filtered mapping
FilterReturn ==
    /\ pc = "filter"
    /\ idx = Len(Jobs)
    /\ json_data' = filtered_json
    /\ pc' = "summarize"
    /\ UNCHANGED <<Jobs, user, queue, state, name, idx, filtered_json, spacing,
                   exc, printed, exit_status, summary, data_table, spacing_in,
                   stdout, cjob, walltime, cpu_efficiency, mem_efficiency>>
-----------------------------------------------------------------------------
(* summarize_json                                                           *)

KeyR     == <<"R">>
KeyQ     == <<"Q">>
KeyOther == <<"O","t","h","e","r">>

\* {'R':0,'Q':0,'Other':0}
InitialStateCounts == [k \in {KeyR, KeyQ, KeyOther} |-> 0]

\* d[k] = v on a dict d
DictSet(d, k, v) == [x \in DOMAIN d \cup {k} |-> IF x = k THEN v ELSE d[x]]

\* lines 58-61: count the record under its queue
CountQueue(counts, job) ==
    IF HasKey(counts, job.queue)
    THEN DictSet(counts, job.queue, counts[job.queue] + 1)
    ELSE DictSet(counts, job.queue, 1)

\* lines 62-65: the right-hand side reads job_state_counts[value['job_state']],
\* the left-hand side stores under value['job_state'].rstrip(); a KeyError
\* from the lookup counts the record under 'Other'
CountState(counts, job) ==
    IF HasKey(job, "job_state") /\ job.job_state.t = "str"
       /\ HasKey(counts, job.job_state.s)
    THEN DictSet(counts, RStrip(job.job_state.s), counts[job.job_state.s] + 1)
    ELSE DictSet(counts, KeyOther, counts[KeyOther] + 1)

\* lines 57-65
RECURSIVE SummarizeLoop(_, _, _)
SummarizeLoop(items, queue_job_counts, job_state_counts) ==
    IF Len(items) = 0
    THEN [exc |-> "none", queue_job_counts |-> queue_job_counts,
          job_state_counts |-> job_state_counts]
    ELSE IF ~HasKey(items[1].job, "queue")
    THEN [exc |-> "KeyError", queue_job_counts |-> queue_job_counts,
          job_state_counts |-> job_state_counts]
    ELSE SummarizeLoop(Tail(items),
                       CountQueue(queue_job_counts, items[1].job),
                       CountState(job_state_counts, items[1].job))

\* lines 53 and 66-68: the summary from the count and the loop's result
SummaryOf(number_jobs, r) ==
    [exc |-> r.exc,
     number_jobs |-> number_jobs,
     queue_job_counts |-> r.queue_job_counts,
     job_state_counts |-> r.job_state_counts]

\* the loop runs over the global json_data, the count is of the argument
summarize_json(filtered, global_json_data) ==
    SummaryOf(Len(filtered),
              SummarizeLoop(global_json_data, <<>>, InitialStateCounts))
-----------------------------------------------------------------------------
(* generate_table.  The text is a sequence of characters in which an ANSI  *)
(* colour sequence is one element.                                          *)

HeaderColour == "ESC[1;32;40m"
EvenColour   == "ESC[1;37;48m"
OddColour    == "ESC[0;37;48m"
ResetColour  == "ESC[00m"
Newline      == "\n"

\* the columns, left to right
ColumnOrder == <<"jobid", "name", "mem", "ncpus", "user", "queue", "state",
                 "walltime", "cpu_efficiency", "mem_efficiency">>

Columns == {ColumnOrder[i] : i \in 1..Len(ColumnOrder)}

\* the header labels of lines 173-182, by column
Labels ==
    [jobid |-> <<"J","o","b","I","D">>,
     name  |-> <<"J","o","b","N","a","m","e">>,
     mem   |-> <<"M","e","m">>,
     ncpus |-> <<"C","P","U","s">>,
     user  |-> <<"U","s","e","r">>,
     queue |-> <<"Q","u","e","u","e">>,
     state |-> <<"S","t","a","t","e">>,
     walltime |-> <<"W","a","l","l","t","i","m","e">>,
     cpu_efficiency |-> <<"%","C","P","U">>,
     mem_efficiency |-> <<"%","M","E","M">>]

\* lines 171-172
PadSpacing(sp) == [k \in DOMAIN sp |-> sp[k] + 1]

\* the cells of one row from the i-th column on, each centred in its width
RECURSIVE Line(_, _, _)
Line(cells, sp, i) ==
    IF i > Len(ColumnOrder) THEN <<>>
    ELSE Center(cells[ColumnOrder[i]], sp[ColumnOrder[i]]) \o
         Line(cells, sp, i + 1)

\* lines 173-182
HeaderRow(sp) == <<HeaderColour>> \o Line(Labels, sp, 1) \o <<ResetColour, Newline>>

PbsSuffix == <<".","p","b","s","0","2">>

\* the ten values a row shows, by column (lines 190-199)
Cells(entry, wall, cpu, mem) ==
    [jobid |-> Remove(entry.id, PbsSuffix),
     name  |-> entry.job.Job_Name.s,
     mem   |-> entry.job.Resource_List.mem,
     ncpus |-> IntToStr(entry.job.Resource_List.ncpus),
     user  |-> Split(entry.job.Job_Owner.s, "@")[1],
     queue |-> entry.job.queue.s,
     state |-> entry.job.job_state.s,
     walltime |-> wall,
     cpu_efficiency |-> cpu,
     mem_efficiency |-> mem]

\* lines 190-199, from what the three converters returned
RowText(entry, sp, wall, cpu, mem) ==
    IF wall.exc # "none" THEN Raised(wall.exc)
    ELSE IF cpu.exc # "none" THEN Raised(cpu.exc)
    ELSE IF mem.exc # "none" THEN Raised(mem.exc)
    ELSE Returned(Line(Cells(entry, wall.val, cpu.val, mem.val), sp, 1) \o
                  <<ResetColour, Newline>>)

\* lines 185-199: one data row, or the exception a converter raises
DataRow(entry, sp) ==
    RowText(entry, sp,
            convert_walltime(entry.job, ResourceListOf(entry.job)),
            convert_cpu_efficiency(entry.job, ResourceListOf(entry.job)),
            convert_mem_efficiency(entry.job, ResourceListOf(entry.job)))

\* a variant of AppendRow that assigns the row to the text instead of
\* appending it, so that one row is left
AppendRowOverwrite(even, job, rest) ==
    IF job.exc # "none" THEN Raised(job.exc)
    ELSE IF rest.exc # "none" THEN Raised(rest.exc)
    ELSE Returned(<<IF even % 2 = 0 THEN EvenColour ELSE OddColour>>
                  \o job.val)

\* lines 200-204: a row appended under the colour of its parity
AppendRow(even, job, rest) ==
    IF job.exc # "none" THEN Raised(job.exc)
    ELSE IF rest.exc # "none" THEN Raised(rest.exc)
    ELSE Returned(<<IF even % 2 = 0 THEN EvenColour ELSE OddColour>>
                  \o job.val \o rest.val)

\* lines 183-204: the rows appended to csv_table, row number `even` first
RECURSIVE DataRows(_, _, _)
DataRows(items, sp, even) ==
    IF Len(items) = 0 THEN Returned(<<>>)
    ELSE AppendRow(even, DataRow(items[1], sp),
                   DataRows(Tail(items), sp, even + 1))

\* the result of a call: the text, and the width table as the call leaves
\* the caller's dict
TableOf(padded, rows) ==
    [exc |-> rows.exc,
     csv_table |-> IF rows.exc = "none" THEN HeaderRow(padded) \o rows.val
                   ELSE <<>>,
     spacing |-> padded]

\* lines 171-205 on the padded widths
RenderPadded(filtered, padded) == TableOf(padded, DataRows(filtered, padded, 0))

generate_table(filtered, sp) == RenderPadded(filtered, PadSpacing(sp))
-----------------------------------------------------------------------------
(* __main__                                                                 *)

\* the filtered-job count above which the summary is printed a second time
SummaryRepeatThreshold == 30

NoSummary ==
    [exc |-> "none", number_jobs |-> 0, queue_job_counts |-> <<>>,
     job_state_counts |-> InitialStateCounts]

NotCalled == [exc |-> "pending", val |-> <<>>]

\* lines 209-213: without a user and without a queue criterion the parser
\* reports a usage error (exit status 2); otherwise the qstat reply is read
Main ==
    /\ pc = "main"
    /\ IF user = <<>> /\ queue = <<>>
       THEN pc' = "exit" /\ exit_status' = 2
       ELSE pc' = "filter" /\ UNCHANGED exit_status
    /\ UNCHANGED <<Jobs, user, queue, state, name, idx, filtered_json, spacing,
                   json_data, exc, printed, summary, data_table, spacing_in,
                   stdout, cjob, walltime, cpu_efficiency, mem_efficiency>>

\* the effect of summarize_json having returned or raised r
SummarizeEffect(r) ==
    IF r.exc = "none"
    THEN /\ summary' = r
         /\ stdout' = Append(stdout, "summary")
         /\ pc' = "render"
         /\ UNCHANGED <<exc, exit_status>>
    ELSE /\ exc' = r.exc
         /\ exit_status' = 1
         /\ pc' = "exit"
         /\ UNCHANGED <<summary, stdout>>

\* lines 219-220
Summarize ==
    /\ pc = "summarize"
    /\ SummarizeEffect(summarize_json(json_data, json_data))
    /\ UNCHANGED <<Jobs, user, queue, state, name, idx, filtered_json, spacing,
                   json_data, printed, data_table, spacing_in, cjob, walltime,
                   cpu_efficiency, mem_efficiency>>

\* the effect of generate_table(json_data, spacing) having returned or
\* raised r
GenerateTableEffect(r) ==
    /\ spacing_in' = spacing
    /\ spacing' = r.spacing
    /\ IF r.exc = "none"
       THEN /\ data_table' = Append(data_table, r.csv_table)
            /\ pc' = "print"
            /\ UNCHANGED <<exc, exit_status>>
       ELSE /\ exc' = r.exc
            /\ exit_status' = 1
            /\ pc' = "exit"
            /\ UNCHANGED data_table
    /\ UNCHANGED <<Jobs, user, queue, state, name, idx, filtered_json,
                   json_data, printed, summary, stdout, cjob, walltime,
                   cpu_efficiency, mem_efficiency>>

\* line 221
GenerateTable ==
    /\ pc = "render"
    /\ GenerateTableEffect(generate_table(json_data, spacing))

\* lines 222-224
PrintTable ==
    /\ pc = "print"
    /\ stdout' = stdout \o <<"table">> \o
                 (IF Len(json_data) > SummaryRepeatThreshold
                  THEN <<"summary">> ELSE <<>>)
    /\ pc' = "done"
    /\ exit_status' = 0
    /\ UNCHANGED <<Jobs, user, queue, state, name, idx, filtered_json, spacing,
                   json_data, exc, printed, summary, data_table, spacing_in,
                   cjob, walltime, cpu_efficiency, mem_efficiency>>

\* the state filter_json starts from, for one reply and four criteria
Start(at) ==
    /\ pc = at
    /\ Jobs \in JobMappings
    /\ user \in UserCriteria
    /\ queue \in QueueCriteria
    /\ state \in StateCriteria
    /\ name \in NameCriteria
    /\ idx = 0
    /\ filtered_json = <<>>
    /\ spacing = InitialSpacing(user, queue)
    /\ json_data = <<>>
    /\ exc = "none"
    /\ printed = <<>>
    /\ exit_status = -1
    /\ summary = NoSummary
    /\ data_table = <<>>
    /\ spacing_in = spacing
    /\ stdout = <<>>
    /\ cjob = JobAlice.job
    /\ walltime = NotCalled
    /\ cpu_efficiency = NotCalled
    /\ mem_efficiency = NotCalled

Init == Start("main")

Next ==
    \/ Main
    \/ FilterStep
    \/ FilterReturn
    \/ Summarize
    \/ GenerateTable
    \/ PrintTable

\* the program, one run
Spec == Init /\ [][Next]_vars

-----------------------------------------------------------------------------
(* filter_json as a function: any four criteria, the empty ones included    *)

InitFilter == Start("filter")

NextFilter ==
    \/ FilterStep
    \/ FilterReturn

SpecFilter == InitFilter /\ [][NextFilter]_vars

-----------------------------------------------------------------------------
(* generate_table called again on the mapping and the width table it was    *)
(* first called with                                                        *)

\* the number of calls of generate_table
MaxRenders == 2

GenerateTableAgain ==
    /\ pc = "print"
    /\ Len(data_table) < MaxRenders
    /\ GenerateTableEffect(generate_table(json_data, spacing))

NextRender ==
    \/ Main
    \/ FilterStep
    \/ FilterReturn
    \/ Summarize
    \/ GenerateTable
    \/ GenerateTableAgain
    \/ PrintTable

SpecRender == Init /\ [][NextRender]_vars

-----------------------------------------------------------------------------
(* the metric converters as functions                                       *)

MemRequests  == {<<"1","6","g","b">>, <<"5","1","2","m","b">>, <<"2","0","4","8","k","b">>, <<"0","b">>, <<"1","0","0","b">>, <<"5","b">>}
CpuRequests  == {0, 1, 2, 4}
WallRequests == {<<"2",":","0","0",":","0","0">>, <<"1","0",":","0","0",":","0","0">>, <<"0",":","0","0",":","0","0">>}
Usages == {ResourcesUsed(<<"1",":","3","0",":","0","0">>, 200, <<"4","1","9","4","3","0","4","k","b">>),
           ResourcesUsed(<<"0","0",":","3","0",":","0","0">>, 50, <<"1","0","2","4","k","b">>)}

ConverterInputs ==
    {[Resource_List |-> ResourceList(m, c, w)]
        : m \in MemRequests, c \in CpuRequests, w \in WallRequests}
    \cup
    {[Resource_List |-> ResourceList(m, c, w), resources_used |-> u]
        : m \in MemRequests, c \in CpuRequests, w \in WallRequests, u \in Usages}

InitConv ==
    /\ pc = "convert"
    /\ cjob \in ConverterInputs
    /\ walltime = NotCalled
    /\ cpu_efficiency = NotCalled
    /\ mem_efficiency = NotCalled
    /\ Jobs = <<>>
    /\ user = <<>>
    /\ queue = <<>>
    /\ state = <<>>
    /\ name = <<>>
    /\ idx = 0
    /\ filtered_json = <<>>
    /\ spacing = InitialSpacing(user, queue)
    /\ json_data = <<>>
    /\ exc = "none"
    /\ printed = <<>>
    /\ exit_status = -1
    /\ summary = NoSummary
    /\ data_table = <<>>
    /\ spacing_in = spacing
    /\ stdout = <<>>

CallWalltime ==
    /\ pc = "convert"
    /\ walltime = NotCalled
    /\ walltime' = convert_walltime(cjob, cjob.Resource_List)
    /\ UNCHANGED <<pc, Jobs, user, queue, state, name, idx, filtered_json,
                   spacing, json_data, exc, printed, exit_status, summary,
                   data_table, spacing_in, stdout, cjob, cpu_efficiency,
                   mem_efficiency>>

CallCpuEfficiency ==
    /\ pc = "convert"
    /\ cpu_efficiency = NotCalled
    /\ cpu_efficiency' = convert_cpu_efficiency(cjob, cjob.Resource_List)
    /\ UNCHANGED <<pc, Jobs, user, queue, state, name, idx, filtered_json,
                   spacing, json_data, exc, printed, exit_status, summary,
                   data_table, spacing_in, stdout, cjob, walltime,
                   mem_efficiency>>

CallMemEfficiency ==
    /\ pc = "convert"
    /\ mem_efficiency = NotCalled
    /\ mem_efficiency' = convert_mem_efficiency(cjob, cjob.Resource_List)
    /\ UNCHANGED <<pc, Jobs, user, queue, state, name, idx, filtered_json,
                   spacing, json_data, exc, printed, exit_status, summary,
                   data_table, spacing_in, stdout, cjob, walltime,
                   cpu_efficiency>>

NextConv ==
    \/ CallWalltime
    \/ CallCpuEfficiency
    \/ CallMemEfficiency

SpecConv == InitConv /\ [][NextConv]_vars
-----------------------------------------------------------------------------
(* Properties                                                               *)

\* the records the program accepts: the four filter fields are strings (the
\* name a string or an integer) and the resource request is complete
WellFormed(job) ==
    /\ {"Job_Name", "Job_Owner", "queue", "job_state", "Resource_List"}
           \subseteq DOMAIN job
    /\ job.Job_Name.t \in {"str", "int"}
    /\ job.Job_Owner.t = "str"
    /\ job.queue.t = "str"
    /\ job.job_state.t = "str"
    /\ {"mem", "ncpus", "walltime"} \subseteq DOMAIN job.Resource_List

AllWellFormed == \A i \in 1..Len(Jobs) : WellFormed(Jobs[i].job)

\* the name as a string
NameText(v) == IF v.t = "int" THEN IntToStr(v.n) ELSE v.s

\* the four criteria hold of a record
Selected(entry) ==
    /\ IsSubstring(user, entry.job.Job_Owner.s)
    /\ IsSubstring(queue, entry.job.queue.s)
    /\ IsSubstring(Upper(state), entry.job.job_state.s)
    /\ IsSubstring(name, NameText(entry.job.Job_Name))

\* filter_json kept the i-th input record
Retained(i) ==
    \E k \in 1..Len(filtered_json) : filtered_json[k].id = Jobs[i].id

FilterReturned == pc = "summarize"

\* the three converters return on the record
ConvertersReturn(job) ==
    /\ convert_walltime(job, job.Resource_List).exc = "none"
    /\ convert_cpu_efficiency(job, job.Resource_List).exc = "none"
    /\ convert_mem_efficiency(job, job.Resource_List).exc = "none"

UserPart(job) == Split(job.Job_Owner.s, "@")[1]

\* C2: with the other three criteria empty, a record is retained iff the
\* owner criterion is a substring of the user part of its owner field.
C2_OwnerFilterUsesUserPart ==
    (FilterReturned /\ AllWellFormed
        /\ queue = <<>> /\ state = <<>> /\ name = <<>>) =>
        \A i \in 1..Len(Jobs) :
            Retained(i) <=> IsSubstring(user, UserPart(Jobs[i].job))

ZeroBytes == <<"0","b">>

\* C3: convert_mem_efficiency returns "0%" whenever the requested memory is
\* the string "0b", whatever the usage.
C3_ZeroBytesGivesZeroPercent ==
    (cjob.Resource_List.mem = ZeroBytes /\ mem_efficiency # NotCalled) =>
        mem_efficiency = Returned(<<"0","%">>)

\* the minutes of the walltime budget of the converters' input
BudgetMinutes ==
    Minutes(FirstTwo(Split(cjob.Resource_List.walltime, ":")))

\* the input of the converters has no usage data, a non-zero walltime
\* budget, at least one cpu, and a memory request whose number part is a
\* positive number
NoUsageCase ==
    /\ ~HasKey(cjob, "resources_used")
    /\ BudgetMinutes.exc = "none" /\ BudgetMinutes.val > 0
    /\ cjob.Resource_List.ncpus >= 1
    /\ ParseNumber(MemNumber(cjob.Resource_List.mem)).exc = "none"
    /\ ParseNumber(MemNumber(cjob.Resource_List.mem)).val > 0

AllConverted ==
    /\ walltime # NotCalled
    /\ cpu_efficiency # NotCalled
    /\ mem_efficiency # NotCalled

\* a converter returned a percentage that reads 0%
ZeroPercent(r) == r.exc = "none" /\ Remove(r.val, <<" ">>) = <<"0","%">>

\* the text convert_walltime returned, up to its "/"
UsedPart(r) == Split(r.val, "/")[1]

C5_RenderRepeatable ==
    Len(data_table) >= 2 =>
        /\ data_table[1] = data_table[2]
        /\ spacing = spacing_in

RequiredFields == {"Job_Name", "Job_Owner", "queue", "job_state", "Resource_List"}
RequiredResources == {"mem", "ncpus", "walltime"}

\* the record lacks a field that filtering or conversion reads
LacksField(job) ==
    \/ ~(RequiredFields \subseteq DOMAIN job)
    \/ ~(RequiredResources \subseteq DOMAIN job.Resource_List)

\* the scan of the idx-th record ended filter_json
FilterFailed == pc = "exit" /\ idx >= 1

\* the four filter fields are there, as strings, and the criteria hold
SelectedByFields(entry) ==
    /\ {"Job_Name", "Job_Owner", "queue", "job_state"} \subseteq DOMAIN entry.job
    /\ \A k \in {"Job_Name", "Job_Owner", "queue", "job_state"} :
           entry.job[k].t = "str"
    /\ Selected(entry)

\* C6: when the scan of a record fails on a field the record lacks,
\* filter_json ends in the schema-violation outcome: the record is printed,
\* the exit status is not zero and no exception is left unhandled; and a
\* selected record that lacks a resource field is never passed over.
C6_MissingFieldIsSchemaViolation ==
    /\ (FilterFailed /\ LacksField(Jobs[idx].job)) =>
           /\ exc = "none"
           /\ printed = <<Jobs[idx].job>>
           /\ exit_status > 0
    /\ \A i \in 1..idx :
           (SelectedByFields(Jobs[i]) /\ LacksField(Jobs[i].job)) =>
               (FilterFailed /\ i = idx)

Summarized == pc \in {"render", "print", "done"}

\* the number of filtered records whose stripped state is / is not among keys
RECURSIVE CountStates(_, _, _)
CountStates(items, keys, among) ==
    IF Len(items) = 0 THEN 0
    ELSE (IF (RStrip(items[1].job.job_state.s) \in keys) = among THEN 1 ELSE 0)
         + CountStates(Tail(items), keys, among)

\* C7: summarize_json counts a record whose stripped state is 'R' or 'Q'
\* under that key and every other record under 'Other', so that the three
\* counts add up to NumberOfJobs.
C7_StateBuckets ==
    Summarized =>
        /\ DOMAIN summary.job_state_counts = {KeyR, KeyQ, KeyOther}
        /\ summary.job_state_counts[KeyR] = CountStates(json_data, {KeyR}, TRUE)
        /\ summary.job_state_counts[KeyQ] = CountStates(json_data, {KeyQ}, TRUE)
        /\ summary.job_state_counts[KeyOther] =
               CountStates(json_data, {KeyR, KeyQ}, FALSE)
        /\ summary.job_state_counts[KeyR] + summary.job_state_counts[KeyQ]
               + summary.job_state_counts[KeyOther] = summary.number_jobs

Rendered == pc \in {"print", "done"}

\* the data rows of a table text: its lines but the header line and the
\* empty text after the last newline
TableRows(text) ==
    SubSeq(Split(text, Newline), 2, Len(Split(text, Newline)) - 1)

\* C8: the table has one data row per record the filter retained, in
\* retention order (row k shows the id of the k-th retained record), and
\* NumberOfJobs is that number of rows; the retained records are the
\* selected ones.  Records alice@node1/batch/R and bob@node2/gpu/Q with
\* owner criterion "alice" give one row and NumberOfJobs 1.
C8_RowsMatchRetained ==
    Rendered =>
        /\ Len(TableRows(data_table[1])) = Len(filtered_json)
        /\ \A k \in 1..Len(filtered_json) :
               IsSubstring(Remove(filtered_json[k].id, PbsSuffix),
                           TableRows(data_table[1])[k])
        /\ summary.number_jobs = Len(TableRows(data_table[1]))
        /\ AllWellFormed => filtered_json = SelectSeq(Jobs, Selected)
        /\ (/\ Len(Jobs) = 2
            /\ Jobs[1].id = JobAlice.id /\ Jobs[2].id = JobBob.id
            /\ user = <<"a","l","i","c","e">> /\ queue = <<>>
            /\ state = <<>> /\ name = <<>>)
               => /\ Len(TableRows(data_table[1])) = 1
                  /\ summary.number_jobs = 1

\* the end-to-end example, printed
C8_Witness ==
    /\ pc = "done"
    /\ Len(Jobs) = 2
    /\ Jobs[1].id = JobAlice.id /\ Jobs[2].id = JobBob.id
    /\ user = <<"a","l","i","c","e">> /\ queue = <<>> /\ state = <<>> /\ name = <<>>
    /\ Len(TableRows(data_table[1])) = 1

\* the values the row of a retained record shows
Shown(entry) ==
    Cells(entry,
          convert_walltime(entry.job, entry.job.Resource_List).val,
          convert_cpu_efficiency(entry.job, entry.job.Resource_List).val,
          convert_mem_efficiency(entry.job, entry.job.Resource_List).val)

\* C9: when filter_json has returned, every column's stored width is at
\* least the length of its header label and of the value every retained
\* record shows in it.
C9_WidthsFitValues ==
    FilterReturned =>
        \A c \in Columns :
            /\ spacing[c] >= Len(Labels[c])
            /\ \A k \in 1..Len(filtered_json) :
                   spacing[c] >= Len(Shown(filtered_json[k])[c])

\* C10: no step makes a column width smaller, every width is at least the
\* length of its header label in every state, and before the first record
\* is scanned the user and queue widths are max(7, length of the criterion).
C10_WidthsGrow ==
    /\ [][\A c \in Columns : spacing'[c] >= spacing[c]]_vars
    /\ [](\A c \in Columns : spacing[c] >= Len(Labels[c]))
    /\ []((idx = 0 /\ pc \in {"main", "filter"}) =>
            /\ spacing.user = (IF Len(user) > 7 THEN Len(user) ELSE 7)
            /\ spacing.queue = (IF Len(queue) > 7 THEN Len(queue) ELSE 7))

\* mid-scan, a criterion longer than 7 and a name column that has grown
C10_Witness ==
    /\ pc = "filter"
    /\ idx >= 1
    /\ Len(user) > 7
    /\ spacing.user = Len(user)
    /\ spacing.name > 7

====
